---- MODULE Spec2Model ----
(***************************************************************************)
(* Model of the gno -> go precompile pipeline:                             *)
(*   gnovm/pkg/precompile/precompile.go, gnovm/pkg/gnolang/precompile.go   *)
(*   and the caller gno.land/pkg/keyscli/run.go.                           *)
(*                                                                         *)
(* Go strings are sequences of one-character strings, so that HasPrefix,   *)
(* HasSuffix, TrimPrefix and TrimSuffix are computed, not assumed.         *)
(***************************************************************************)
EXTENDS Integers, Sequences, FiniteSets, TLC

VARIABLES
    call,        \* the pure function applied last, with its arguments and result
    isMem,       \* PrecompileAndCheckPkg's first argument
    cfg,         \* the PrecompileCfg flags in force: SkipFmt, SkipImports
    roots,       \* targetPaths: the package directories given to the flow
    src,         \* what reading and translating each .gno file has shown
    status,      \* running, returned, panicked or exited (log.Fatal)
    retErr,      \* what PrecompileAndCheckPkg returned
    pc,          \* the statement PrecompileAndCheckPkg is at
    loopIdx,     \* the index of the loop PrecompileAndCheckPkg is in
    errCount,    \* errCount of PrecompileAndCheckPkg
    tmpDir,      \* the temporary directory: none, exists, removed or remove failed
    precompiled, \* opts.Precompiled
    stack,       \* the calls of PrecompileFile and PrecompilePkg in progress
    ret,         \* the value the callee that just returned handed back
    translated,  \* per file, the number of Precompile calls made on it
    written,     \* per file, the number of artifact writes
    artifacts,   \* the files whose generated artifact is on disk
    cleaned,     \* the paths CleanGeneratedFiles has been called with
    built,       \* the package paths handed to GoBuildFileOrPkg
    faults,      \* the failures of the environment the run has survived
    prevRun      \* what the run before this one translated, if there was one

flowVars ==
    <<isMem, cfg, roots, src, status, retErr, pc, loopIdx, errCount, tmpDir,
      precompiled, stack, ret, translated, written, artifacts, cleaned, built,
      faults, prevRun>>

vars == <<call, flowVars>>

----------------------------------------------------------------------------
(* Bounds of the model. *)

\* longest import list of a module given to precompileAST and Precompile
MaxImports == 2

\* most failures of the environment (a file that cannot be read or written,
\* a format check or a build that fails) one run of a flow survives
MaxFaults == 1

\* the most pieces a captured text is made of
MaxPieces == 3

\* the most files of a package held in memory
MaxModules == 2

\* the most files a package directory holds
MaxDirFiles == 2

----------------------------------------------------------------------------
(* Constants of the program. *)

\* "gno.land/r/"
GnoRealmPkgsPrefixBefore ==
    <<"g","n","o",".","l","a","n","d","/","r","/">>

\* "github.com/gnolang/gno/examples/gno.land/r/"
GnoRealmPkgsPrefixAfter ==
    <<"g","i","t","h","u","b",".","c","o","m","/","g","n","o","l","a","n","g","/","g","n","o","/","e","x","a","m","p","l","e","s","/","g","n","o",".","l","a","n","d","/","r","/">>

\* "gno.land/p/demo/"
GnoPackagePrefixBefore ==
    <<"g","n","o",".","l","a","n","d","/","p","/","d","e","m","o","/">>

\* "github.com/gnolang/gno/examples/gno.land/p/demo/"
GnoPackagePrefixAfter ==
    <<"g","i","t","h","u","b",".","c","o","m","/","g","n","o","l","a","n","g","/","g","n","o","/","e","x","a","m","p","l","e","s","/","g","n","o",".","l","a","n","d","/","p","/","d","e","m","o","/">>

\* "std"
GnoStdPkgBefore ==
    <<"s","t","d">>

\* "github.com/gnolang/gno/gnovm/stdlibs/stdshim"
GnoStdPkgAfter ==
    <<"g","i","t","h","u","b",".","c","o","m","/","g","n","o","l","a","n","g","/","g","n","o","/","g","n","o","v","m","/","s","t","d","l","i","b","s","/","s","t","d","s","h","i","m">>

stdlibWhitelist ==
    << <<"b","u","f","i","o">>,
       <<"b","y","t","e","s">>,
       <<"c","o","m","p","r","e","s","s","/","g","z","i","p">>,
       <<"c","o","n","t","e","x","t">>,
       <<"c","r","y","p","t","o","/","m","d","5">>,
       <<"c","r","y","p","t","o","/","s","h","a","1">>,
       <<"c","r","y","p","t","o","/","s","h","a","2","5","6">>,
       <<"e","n","c","o","d","i","n","g","/","b","a","s","e","6","4">>,
       <<"e","n","c","o","d","i","n","g","/","b","i","n","a","r","y">>,
       <<"e","n","c","o","d","i","n","g","/","h","e","x">>,
       <<"e","n","c","o","d","i","n","g","/","j","s","o","n">>,
       <<"e","n","c","o","d","i","n","g","/","x","m","l">>,
       <<"e","r","r","o","r","s">>,
       <<"f","l","a","g">>,
       <<"f","m","t">>,
       <<"i","o">>,
       <<"i","o","/","u","t","i","l">>,
       <<"m","a","t","h">>,
       <<"m","a","t","h","/","b","i","g">>,
       <<"m","a","t","h","/","r","a","n","d">>,
       <<"r","e","g","e","x","p">>,
       <<"s","o","r","t">>,
       <<"s","t","r","c","o","n","v">>,
       <<"s","t","r","i","n","g","s">>,
       <<"t","e","x","t","/","t","e","m","p","l","a","t","e">>,
       <<"t","i","m","e">>,
       <<"u","n","i","c","o","d","e","/","u","t","f","8">>,
       <<"s","t","d">> >>

\* "github.com/gnolang/gno/_test"
importPrefixWhitelist ==
    << <<"g","i","t","h","u","b",".","c","o","m","/","g","n","o","l","a","n","g","/","g","n","o","/","_","t","e","s","t">> >>

\* the two quote characters of a Go string literal: the double quote of an
\* interpreted literal and the back quote of a raw literal
DQ == "dquote"

BQ == "bquote"

----------------------------------------------------------------------------
(* Inputs: the import paths, file names and tag arguments the model draws. *)

\* "std"
PathStd ==
    <<"s","t","d">>

\* "fmt"
PathFmt ==
    <<"f","m","t">>

\* "fmtx"
PathFmtx ==
    <<"f","m","t","x">>

\* "os"
PathOs ==
    <<"o","s">>

\* "gno.land/r/x"
PathRealm ==
    <<"g","n","o",".","l","a","n","d","/","r","/","x">>

\* "gno.land/p/demo/x"
PathPkg ==
    <<"g","n","o",".","l","a","n","d","/","p","/","d","e","m","o","/","x">>

\* "gno.land/p/x"
PathPNoDemo ==
    <<"g","n","o",".","l","a","n","d","/","p","/","x">>

\* "github.com/gnolang/gno/_test/x"
PathTestHarness ==
    <<"g","i","t","h","u","b",".","c","o","m","/","g","n","o","l","a","n","g","/","g","n","o","/","_","t","e","s","t","/","x">>

\* "github.com/gnolang/gno/x"
PathGnoOther ==
    <<"g","i","t","h","u","b",".","c","o","m","/","g","n","o","l","a","n","g","/","g","n","o","/","x">>

\* "a.gno"
NameImpl ==
    <<"a",".","g","n","o">>

\* "a_test.gno"
NameTest ==
    <<"a","_","t","e","s","t",".","g","n","o">>

\* "a_filetest.gno"
NameFiletest ==
    <<"a","_","f","i","l","e","t","e","s","t",".","g","n","o">>

\* "main.gno"
NameMain ==
    <<"m","a","i","n",".","g","n","o">>

\* "a_test.go"
NameTestGo ==
    <<"a","_","t","e","s","t",".","g","o">>

\* "_test.gno"
NameBareTest ==
    <<"_","t","e","s","t",".","g","n","o">>

\* "_test.gno"
SufTestGno ==
    <<"_","t","e","s","t",".","g","n","o">>

\* "_filetest.gno"
SufFiletestGno ==
    <<"_","f","i","l","e","t","e","s","t",".","g","n","o">>

\* ".gno"
ExtGno ==
    <<".","g","n","o">>

\* Go string literals: the quote character, the content, the quote character.
\* The alphabet holds no backslash, so an interpreted literal has no escapes.
Lit(q, s) == <<q>> \o s \o <<q>>

ImportPathsIn ==
    { PathStd, PathFmt, PathFmtx, PathOs, PathRealm, PathPkg, PathPNoDemo,
      PathTestHarness, PathGnoOther, GnoStdPkgAfter, GnoRealmPkgsPrefixBefore }

RawPathsIn == { PathStd, PathFmt, PathOs, PathPkg }

\* the import literals (ast.ImportSpec.Path.Value) of the modules drawn
ImportLits ==
    { Lit(DQ, s) : s \in ImportPathsIn } \cup { Lit(BQ, s) : s \in RawPathsIn }

SeqsUpTo(S, n) == UNION { [1..k -> S] : k \in 0..n }

ImportLists == SeqsUpTo(ImportLits, MaxImports)

Filenames == { NameImpl, NameTest, NameFiletest, NameMain, NameTestGo, NameBareTest }

TagArgs == { "gno", "gno && test", "gno && filetest", "", "no_header", "gno,tmp" }

----------------------------------------------------------------------------
(* package strings *)

HasPrefix(s, prefix) ==
    /\ Len(prefix) <= Len(s)
    /\ SubSeq(s, 1, Len(prefix)) = prefix

HasSuffix(s, suffix) ==
    /\ Len(suffix) <= Len(s)
    /\ SubSeq(s, Len(s) - Len(suffix) + 1, Len(s)) = suffix

TrimPrefix(s, prefix) ==
    IF HasPrefix(s, prefix) THEN SubSeq(s, Len(prefix) + 1, Len(s)) ELSE s

TrimSuffix(s, suffix) ==
    IF HasSuffix(s, suffix) THEN SubSeq(s, 1, Len(s) - Len(suffix)) ELSE s

\* strconv.Unquote of a literal without escapes: both quote kinds are removed
Unquote(lit) ==
    IF /\ Len(lit) >= 2
       /\ lit[1] = lit[Len(lit)]
       /\ lit[1] \in {DQ, BQ}
    THEN SubSeq(lit, 2, Len(lit) - 1)
    ELSE lit

\* strconv.Quote of a path without special characters
Quote(s) == Lit(DQ, s)

\* astutil's importPath(imp): the unquoted path of an import spec
astImportPath(lit) == Unquote(lit)

\* precompileAST's own reading of a literal (lines 777 and 816)
TrimQuotes(lit) == TrimPrefix(TrimSuffix(lit, <<DQ>>), <<DQ>>)

----------------------------------------------------------------------------
(* multierr: an aggregate error is the sequence of its entries, nil is <<>> *)

NilErr == <<>>

multierrAppend(errs, e) == Append(errs, e)

WhitelistErr(importPath) == [kind |-> "whitelist", path |-> importPath]

RewriteErr(old, new) == [kind |-> "rewrite", old |-> old, new |-> new]

ParseErr == [kind |-> "parse"]

----------------------------------------------------------------------------
(* precompileAST: the import whitelist and the import rewrite *)

\* lines 779-806: the four tests made on one import, in the code's order
IsWhitelisted(importPath) ==
    IF HasPrefix(importPath, GnoRealmPkgsPrefixBefore) THEN TRUE
    ELSE IF HasPrefix(importPath, GnoPackagePrefixBefore) THEN TRUE
    ELSE IF \E i \in 1..Len(stdlibWhitelist) : importPath = stdlibWhitelist[i]
         THEN TRUE
    ELSE \E i \in 1..Len(importPrefixWhitelist) :
             HasPrefix(importPath, importPrefixWhitelist[i])

\* mutant of WhitelistPass: the pass returns at the first violation
RECURSIVE WhitelistPassFirstOnly(_, _, _)
WhitelistPassFirstOnly(imps, k, errs) ==
    IF k > Len(imps) THEN errs
    ELSE LET importPath == TrimQuotes(imps[k])
         IN  IF IsWhitelisted(importPath)
             THEN WhitelistPassFirstOnly(imps, k + 1, errs)
             ELSE multierrAppend(errs, WhitelistErr(importPath))

\* lines 774-811: one pass over the import specs, every violation appended
RECURSIVE WhitelistPass(_, _, _)
WhitelistPass(imps, k, errs) ==
    IF k > Len(imps) THEN errs
    ELSE LET importPath == TrimQuotes(imps[k])
         IN  WhitelistPass(imps, k + 1,
                 IF IsWhitelisted(importPath) THEN errs
                 ELSE multierrAppend(errs, WhitelistErr(importPath)))

\* astutil.RewriteImport(fset, f, oldPath, newPath): every import spec of the
\* file whose unquoted path is oldPath gets the quoted newPath
RewriteImport(imps, oldPath, newPath) ==
    [ imps    |-> [i \in 1..Len(imps) |->
                     IF astImportPath(imps[i]) = oldPath
                     THEN Quote(newPath) ELSE imps[i]],
      rewrote |-> \E i \in 1..Len(imps) : astImportPath(imps[i]) = oldPath ]

\* the three rewrite rules in the order of lines 819, 826, 835
CodeRules == <<"std", "pkg", "realm">>

\* mutant of RuleMatches: the package rule matches every gno.land/ path
RuleMatchesOverlap(rule, importPath) ==
    CASE rule = "std"   -> importPath = GnoStdPkgBefore
      [] rule = "pkg"   -> HasPrefix(importPath, SubSeq(GnoPackagePrefixBefore, 1, 9))
      [] rule = "realm" -> HasPrefix(importPath, GnoRealmPkgsPrefixBefore)

RuleMatches(rule, importPath) ==
    CASE rule = "std"   -> importPath = GnoStdPkgBefore
      [] rule = "pkg"   -> HasPrefix(importPath, GnoPackagePrefixBefore)
      [] rule = "realm" -> HasPrefix(importPath, GnoRealmPkgsPrefixBefore)

RuleOld(rule, importPath) ==
    IF rule = "std" THEN GnoStdPkgBefore ELSE importPath

RuleTarget(rule, importPath) ==
    CASE rule = "std"   -> GnoStdPkgAfter
      [] rule = "pkg"   -> GnoPackagePrefixAfter
                             \o TrimPrefix(importPath, GnoPackagePrefixBefore)
      [] rule = "realm" -> GnoRealmPkgsPrefixAfter
                             \o TrimPrefix(importPath, GnoRealmPkgsPrefixBefore)

\* one if-block of the rewrite loop; st = [imps, errs]
ApplyRule(st, rule, importPath) ==
    IF ~RuleMatches(rule, importPath) THEN st
    ELSE LET r == RewriteImport(st.imps, RuleOld(rule, importPath),
                                RuleTarget(rule, importPath))
         IN  [ imps |-> r.imps,
               errs |-> IF r.rewrote THEN st.errs
                        ELSE multierrAppend(st.errs,
                                 RewriteErr(RuleOld(rule, importPath),
                                            RuleTarget(rule, importPath))) ]

\* the body of the rewrite loop for import spec k: importPath is read once,
\* from the spec as it is now, then the rules are tried in the order `rules`
RewriteSpec(st, k, rules) ==
    LET importPath == TrimQuotes(st.imps[k])
    IN  ApplyRule(ApplyRule(ApplyRule(st, rules[1], importPath),
                            rules[2], importPath),
                  rules[3], importPath)

\* lines 814-843: the specs are visited in the order `order`
RECURSIVE RewritePass(_, _, _, _)
RewritePass(st, order, n, rules) ==
    IF n > Len(order) THEN st
    ELSE RewritePass(RewriteSpec(st, order[n], rules), order, n + 1, rules)

SourceOrder(imps) == [i \in 1..Len(imps) |-> i]

\* precompileAST(fset, f, checkWhitelist): returns (node, errs)
precompileAST(imps, checkWhitelist) ==
    LET errs0 == IF checkWhitelist THEN WhitelistPass(imps, 1, NilErr)
                 ELSE NilErr
        st    == RewritePass([imps |-> imps, errs |-> errs0],
                             SourceOrder(imps), 1, CodeRules)
    IN  [node |-> st.imps, errs |-> st.errs]

----------------------------------------------------------------------------
(* Precompile: parse, policy, render *)

GeneratedMarker == "// Code generated by github.com/gnolang/gno. DO NOT EDIT.\n\n"

\* mutant of Header: the no_header sentinel is not looked at
HeaderAlways(tags) ==
    IF tags # ""
    THEN <<GeneratedMarker, "//go:build " \o tags \o "\n\n">>
    ELSE <<GeneratedMarker>>

\* lines 533-543: the text written before the rendered tree
Header(tags) ==
    IF tags # "no_header"
    THEN IF tags # ""
         THEN <<GeneratedMarker, "//go:build " \o tags \o "\n\n">>
         ELSE <<GeneratedMarker>>
    ELSE <<>>

\* format.Node(&out, fset, transformed): the text of the tree, cut short when
\* rendering fails
Render(node, renderOK) == [imports |-> node, complete |-> renderOK]

\* mutant of isTestFile: the _filetest.gno suffix is forgotten
isTestFileOnlyTest(filename) == HasSuffix(filename, SufTestGno)

isTestFile(filename) ==
    HasSuffix(filename, SufTestGno) \/ HasSuffix(filename, SufFiletestGno)

\* a result pointer is a sequence: <<>> is nil, <<r>> points to r
NilRes == <<>>

\* mutant of Precompile: the text is generated and returned with the error
PrecompileKeepsText(source, tags, filename) ==
    IF ~source.parseOK
    THEN [res |-> NilRes, err |-> <<ParseErr>>]
    ELSE LET t == precompileAST(source.imports, ~isTestFile(filename))
         IN  [res |-> << [ Imports    |-> t.node,
                           Translated |-> [ header |-> Header(tags),
                                            body   |-> Render(t.node,
                                                         source.renderOK) ] ] >>,
              err |-> t.errs]

\* Precompile(source, tags, filename): returns (*precompileResult, error)
Precompile(source, tags, filename) ==
    IF ~source.parseOK
    THEN [res |-> NilRes, err |-> <<ParseErr>>]
    ELSE LET shouldCheckWhitelist == ~isTestFile(filename)
             t == precompileAST(source.imports, shouldCheckWhitelist)
         IN  IF t.errs # NilErr
             THEN [res |-> NilRes, err |-> t.errs]
             ELSE [res |-> << [ Imports    |-> t.node,
                                Translated |-> [ header |-> Header(tags),
                                                 body   |-> Render(t.node,
                                                              source.renderOK) ] ] >>,
                   err |-> NilErr]

----------------------------------------------------------------------------
(* GetPrecompileFilenameAndTags: the name and the tags of the generated file *)

\* ".gno.gen.go"
SufGnoGenGo ==
    <<".","g","n","o",".","g","e","n",".","g","o">>

\* ".gno.gen_test.go"
SufGnoGenTestGo ==
    <<".","g","n","o",".","g","e","n","_","t","e","s","t",".","g","o">>

\* ".go"
SufGo ==
    <<".","g","o">>

\* the paths of .gno files the callers pass (every caller filters on .gno)
GnoFilePaths ==
    { NameImpl, NameTest, NameFiletest, NameMain, NameBareTest,
      \* ".a_test.gno", "a_test_filetest.gno", "d/a.gno", "d/a_test.gno"
      <<".">> \o NameTest, SubSeq(NameTest, 1, 6) \o Tail(NameFiletest),
      <<"d","/">> \o NameImpl, <<"d","/">> \o NameTest }

MaxOf(S) == CHOOSE x \in S : \A y \in S : y <= x

\* filepath.Base: trailing separators go, then the last element is taken
Base(path) ==
    IF path = <<>> THEN <<".">>
    ELSE LET keep == { n \in 1..Len(path) : path[n] # "/" }
         IN  IF keep = {} THEN <<"/">>
             ELSE LET t  == SubSeq(path, 1, MaxOf(keep))
                      sl == { n \in 1..Len(t) : t[n] = "/" }
                  IN  IF sl = {} THEN t
                      ELSE SubSeq(t, MaxOf(sl) + 1, Len(t))

\* mutant of GetPrecompileFilenameAndTags: the file-test artifact is not hidden
GetPrecompileFilenameAndTagsNoDot(gnoFilePath) ==
    LET nameNoExtension == TrimSuffix(Base(gnoFilePath), ExtGno)
    IN  IF HasSuffix(gnoFilePath, SufFiletestGno)
        THEN [ targetFilename |-> nameNoExtension \o SufGnoGenGo,
               tags |-> "gno && filetest" ]
        ELSE IF HasSuffix(gnoFilePath, SufTestGno)
        THEN [ targetFilename |-> <<".">> \o nameNoExtension \o SufGnoGenTestGo,
               tags |-> "gno && test" ]
        ELSE [ targetFilename |-> nameNoExtension \o SufGnoGenGo,
               tags |-> "gno" ]

\* precompile.GetPrecompileFilenameAndTags(gnoFilePath)
GetPrecompileFilenameAndTags(gnoFilePath) ==
    LET nameNoExtension == TrimSuffix(Base(gnoFilePath), ExtGno)
    IN  IF HasSuffix(gnoFilePath, SufFiletestGno)
        THEN [ targetFilename |-> <<".">> \o nameNoExtension \o SufGnoGenGo,
               tags |-> "gno && filetest" ]
        ELSE IF HasSuffix(gnoFilePath, SufTestGno)
        THEN [ targetFilename |-> <<".">> \o nameNoExtension \o SufGnoGenTestGo,
               tags |-> "gno && test" ]
        ELSE [ targetFilename |-> nameNoExtension \o SufGnoGenGo,
               tags |-> "gno" ]

\* gnolang.GetPrecompileFilenameAndTags(gnoFilePath, isPureGo)
gnolangGetPrecompileFilenameAndTags(gnoFilePath, isPureGo) ==
    LET nameNoExtension == TrimSuffix(Base(gnoFilePath), ExtGno)
    IN  IF HasSuffix(gnoFilePath, SufFiletestGno)
        THEN [ targetFilename |->
                 IF isPureGo THEN <<".">> \o nameNoExtension \o SufGo
                 ELSE <<".">> \o nameNoExtension \o SufGnoGenGo,
               tags |-> "gno && filetest" ]
        ELSE IF HasSuffix(gnoFilePath, SufTestGno)
        THEN [ targetFilename |->
                 IF isPureGo THEN <<".">> \o nameNoExtension \o SufGo
                 ELSE <<".">> \o nameNoExtension \o SufGnoGenTestGo,
               tags |-> "gno && test" ]
        ELSE [ targetFilename |->
                 IF isPureGo THEN nameNoExtension \o SufGo
                 ELSE nameNoExtension \o SufGnoGenGo,
               tags |-> "gno" ]

\* the function of package precompile, and the function of package gnolang
\* with isPureGo false or true
FilenameAndTags(variant, gnoFilePath) ==
    CASE variant = "precompile"   -> GetPrecompileFilenameAndTags(gnoFilePath)
      [] variant = "gnolang"      ->
             gnolangGetPrecompileFilenameAndTags(gnoFilePath, FALSE)
      [] variant = "gnolang pure" ->
             gnolangGetPrecompileFilenameAndTags(gnoFilePath, TRUE)

----------------------------------------------------------------------------
(* parseResult, identifyCommandLineArguments and PrecompileRun.  Captured
   texts are strings; Len, SubSeq and \o act on them as on sequences. *)

\* strings.Index(s, substr), counted from 1; 0 when substr does not occur
IndexOf(s, substr) ==
    LET hits == { n \in 1..(Len(s) - Len(substr) + 1) :
                    SubSeq(s, n, n + Len(substr) - 1) = substr }
    IN  IF hits = {} THEN 0 ELSE CHOOSE n \in hits : \A m \in hits : n <= m

\* strings.TrimSpace(s)
TrimSpace(s) ==
    LET keep == { n \in 1..Len(s) :
                    SubSeq(s, n, n) \notin {" ", "\n", "\t", "\r"} }
    IN  IF keep = {} THEN ""
        ELSE SubSeq(s, CHOOSE n \in keep : \A m \in keep : n <= m, MaxOf(keep))

\* strings.Split(s, sep), sep not empty
RECURSIVE Split(_, _)
Split(s, sep) ==
    LET n == IndexOf(s, sep)
    IN  IF n = 0 THEN <<s>>
        ELSE <<SubSeq(s, 1, n - 1)>>
               \o Split(SubSeq(s, n + Len(sep), Len(s)), sep)

\* the sentinel of both normalizers (tag)
Tag == "command-line-arguments"

\* mutant of parseResult: the captured text is not trimmed
parseResultNoTrim(input, path) ==
    LET parts == Split(input, "main.gno.gen.go")
    IN  [ res   |-> IF Len(parts) > 1 THEN path \o parts[2] ELSE input,
          isErr |-> IndexOf(input, Tag) # 0 ]

\* precompile.parseResult(input, path): returns (input, isStdErr)
parseResult(input, path) ==
    LET trimmed == TrimSpace(input)
        parts   == Split(trimmed, "main.gno.gen.go")
    IN  [ res   |-> IF Len(parts) > 1 THEN path \o parts[2] ELSE trimmed,
          isErr |-> IndexOf(trimmed, Tag) # 0 ]

\* gnolang.identifyCommandLineArguments(input, path)
identifyCommandLineArguments(input, path) ==
    LET trimmed == TrimSpace(input)
        parts   == Split(trimmed, "main.go")
    IN  [ res   |-> IF Len(parts) > 1 THEN path \o parts[2] ELSE trimmed,
          isErr |-> IndexOf(trimmed, Tag) # 0 ]

\* errors.New(res)
RunErr(res) == [kind |-> "run", msg |-> res]

\* precompile.PrecompileRun: run is what the process did; CombinedOutput
\* gives both streams in one buffer, and its error is only printed
PrecompileRun(run, path) ==
    LET out == run.stdout \o run.stderr
        r   == parseResult(out, path)
    IN  IF r.isErr /\ r.res # ""
        THEN [err |-> <<RunErr(r.res)>>, output |-> ""]
        ELSE IF ~r.isErr /\ r.res # ""
        THEN [err |-> NilErr, output |-> r.res]
        ELSE IF Len(out) # 0
        THEN [err |-> NilErr, output |-> out]
        ELSE [err |-> NilErr, output |-> ""]

\* gnolang.PrecompileRun: the two streams are captured apart; only a process
\* that cannot be started is an error of its own, the error of Wait is printed
gnolangPrecompileRun(run, path) ==
    IF ~run.started
    THEN [err |-> <<[kind |-> "start"]>>, output |-> ""]
    ELSE LET r == identifyCommandLineArguments(run.stderr, path)
         IN  IF r.isErr /\ r.res # ""
             THEN [err |-> <<RunErr(r.res)>>, output |-> ""]
             ELSE IF ~r.isErr /\ r.res # ""
             THEN [err |-> NilErr, output |-> r.res]
             ELSE IF Len(run.stdout) # 0
             THEN [err |-> NilErr, output |-> run.stdout]
             ELSE [err |-> NilErr, output |-> ""]

\* the pieces captured texts are made of
TextPieces ==
    { "main.gno.gen.go", "main.go", Tag, ":12: undefined: X", "\n", "hello" }

RECURSIVE TextsUpTo(_)
TextsUpTo(n) ==
    IF n = 0 THEN {""}
    ELSE TextsUpTo(n - 1)
           \cup { t \o p : t \in TextsUpTo(n - 1), p \in TextPieces }

CapturedTexts == TextsUpTo(MaxPieces)

\* the path argument, used to make the log
LogicalPaths == {"", "P"}

\* what a run of the generated file can do: not start at all, or end with an
\* exit status and the two streams
RunOutcomes ==
    { [started |-> FALSE, exitOK |-> FALSE, stdout |-> "", stderr |-> ""] }
    \cup { [started |-> TRUE, exitOK |-> x, stdout |-> o, stderr |-> e] :
             x \in BOOLEAN, o \in {"", "hello\n"}, e \in CapturedTexts }

----------------------------------------------------------------------------
(* PrecompileAndRunMempkg, and the error of PrecompileAndCheckPkg's
   translation loop, on packages held in memory *)

\* the files of a MemPackage: the name, the body, and what the environment
\* does with the artifact (it cannot be written; it runs and prints; the
\* toolchain rejects it; it runs and dies)
MemFiles ==
    { [Name |-> n, Body |-> b, writeOK |-> o[1], run |-> o[2]] :
        n \in {NameMain, NameImpl, NameTestGo},
        b \in { [parseOK |-> FALSE, imports |-> <<>>, renderOK |-> FALSE],
                [parseOK |-> TRUE, imports |-> <<Lit(DQ, PathOs)>>,
                 renderOK |-> TRUE],
                [parseOK |-> TRUE, imports |-> <<Lit(DQ, PathFmt)>>,
                 renderOK |-> TRUE] },
        o \in { <<FALSE, "cannot start">>, <<TRUE, "prints">>,
                <<TRUE, "does not compile">>, <<TRUE, "panics">> } }

\* go run targetFileName in the temporary directory: what the process does
\* and writes; a file that does not compile is named in the diagnostic
GoRun(what, targetFileName) ==
    LET RECURSIVE str(_)
        str(t) == IF t = <<>> THEN "" ELSE Head(t) \o str(Tail(t))
    IN  CASE what = "cannot start" ->
               [started |-> FALSE, exitOK |-> FALSE, stdout |-> "",
                stderr |-> ""]
          [] what = "prints" ->
               [started |-> TRUE, exitOK |-> TRUE, stdout |-> "hello\n",
                stderr |-> ""]
          [] what = "does not compile" ->
               [started |-> TRUE, exitOK |-> FALSE, stdout |-> "",
                stderr |-> "# " \o Tag \o "\n./" \o str(targetFileName)
                             \o ":12: undefined: X"]
          [] what = "panics" ->
               [started |-> TRUE, exitOK |-> FALSE, stdout |-> "",
                stderr |-> "panic: x"]

MemPackages == SeqsUpTo(MemFiles, MaxModules)

\* the error PrecompileFile returns for a file of the package: that of
\* Precompile, or that of writeDirFile
PrecompileFileErr(mfile) ==
    LET res == Precompile(mfile.Body,
                          GetPrecompileFilenameAndTags(mfile.Name).tags,
                          mfile.Name)
    IN  IF res.err # NilErr THEN res.err
        ELSE IF ~mfile.writeOK THEN <<[kind |-> "write"]>>
        ELSE NilErr

\* PrecompileAndCheckPkg, lines 391-421: the error returned after the
\* translation loop; the error made at line 396 is never read
PrecompileAndCheckPkgErr(Files) ==
    LET srcPaths == SelectSeq(Files, LAMBDA mfile : HasSuffix(mfile.Name, ExtGno))
        nFailed  == Cardinality({ k \in 1..Len(srcPaths) :
                                    PrecompileFileErr(srcPaths[k]) # NilErr })
    IN  IF nFailed > 0
        THEN << [ format  |-> "%d precompile errors from addpkg",
                  args    |-> <<nFailed>>,
                  wrapped |-> NilErr ] >>
        ELSE NilErr

\* mutant of PrecompileAndRunMempkg: the loop ends at the first failure
PrecompileAndRunMempkgFirstOnly(pkg, Files, path, tmpOK) ==
    LET RECURSIVE loop(_, _)
        loop(k, st) ==
            IF k > Len(Files) \/ st.errs # NilErr THEN st
            ELSE LET mfile == Files[k]
                     targetFileName ==
                         IF pkg = "precompile"
                         THEN GetPrecompileFilenameAndTags(mfile.Name).targetFilename
                         ELSE gnolangGetPrecompileFilenameAndTags(
                                  mfile.Name, TRUE).targetFilename
                     res == Precompile(mfile.Body,
                              IF pkg = "precompile"
                              THEN GetPrecompileFilenameAndTags(mfile.Name).tags
                              ELSE "no_header", mfile.Name)
                     r == IF pkg = "precompile"
                          THEN PrecompileRun(GoRun(mfile.run, targetFileName),
                                             path)
                          ELSE gnolangPrecompileRun(
                                   GoRun(mfile.run, targetFileName), path)
                 IN  loop(k + 1,
                       IF ~HasSuffix(mfile.Name, ExtGno) THEN st
                       ELSE IF res.err # NilErr
                       THEN [st EXCEPT !.errs = @ \o res.err]
                       ELSE IF ~mfile.writeOK
                       THEN [st EXCEPT !.errs = Append(@, [kind |-> "write"])]
                       ELSE [errs |-> st.errs \o r.err, output |-> r.output,
                             written |->
                               Append(st.written,
                                      [name |-> targetFileName,
                                       text |-> res.res[1].Translated])])
        end == loop(1, [errs |-> NilErr, output |-> "", written |-> <<>>])
    IN  IF ~tmpOK
        THEN [err |-> <<[kind |-> "mkdirtemp"]>>, output |-> "",
              written |-> <<>>]
        ELSE IF end.errs # NilErr
        THEN [err |-> end.errs, output |-> "", written |-> end.written]
        ELSE [err |-> NilErr, output |-> end.output, written |-> end.written]

\* PrecompileAndRunMempkg(mempkg, path) of package pkg; Files are
\* mempkg.Files, tmpOK tells whether os.MkdirTemp succeeds.  With the error
\* and the output it returns, the files it wrote to the temporary directory.
PrecompileAndRunMempkg(pkg, Files, path, tmpOK) ==
    LET RECURSIVE loop(_, _)
        loop(k, st) ==
            IF k > Len(Files) THEN st
            ELSE LET mfile == Files[k]
                     targetFileName ==
                         IF pkg = "precompile"
                         THEN GetPrecompileFilenameAndTags(mfile.Name).targetFilename
                         ELSE gnolangGetPrecompileFilenameAndTags(
                                  mfile.Name, TRUE).targetFilename
                     res == Precompile(mfile.Body,
                              IF pkg = "precompile"
                              THEN GetPrecompileFilenameAndTags(mfile.Name).tags
                              ELSE "no_header", mfile.Name)
                     r == IF pkg = "precompile"
                          THEN PrecompileRun(GoRun(mfile.run, targetFileName),
                                             path)
                          ELSE gnolangPrecompileRun(
                                   GoRun(mfile.run, targetFileName), path)
                 IN  loop(k + 1,
                       IF ~HasSuffix(mfile.Name, ExtGno) THEN st
                       ELSE IF res.err # NilErr
                       THEN [st EXCEPT !.errs = @ \o res.err]
                       ELSE IF ~mfile.writeOK
                       THEN [st EXCEPT !.errs = Append(@, [kind |-> "write"])]
                       ELSE [errs |-> st.errs \o r.err, output |-> r.output,
                             written |->
                               Append(st.written,
                                      [name |-> targetFileName,
                                       text |-> res.res[1].Translated])])
        end == loop(1, [errs |-> NilErr, output |-> "", written |-> <<>>])
    IN  IF ~tmpOK
        THEN [err |-> <<[kind |-> "mkdirtemp"]>>, output |-> "",
              written |-> <<>>]
        ELSE IF end.errs # NilErr
        THEN [err |-> end.errs, output |-> "", written |-> end.written]
        ELSE [err |-> NilErr, output |-> end.output, written |-> end.written]

----------------------------------------------------------------------------
(* PrecompileBuildPackage: the files handed to the compiler *)

\* a < b as sort.Strings compares: byte by byte, a proper prefix first
StringsLess(a, b) ==
    LET bytes == <<".", "/", "_", "a", "b", "c", "d", "e", "f", "g", "h", "i",
                   "j", "k", "l", "m", "n", "o", "p", "q", "r", "s", "t", "u",
                   "v", "w", "x", "y", "z">>
        code(c) == CHOOSE n \in 1..Len(bytes) : bytes[n] = c
        RECURSIVE less(_, _)
        less(x, y) ==
            IF y = <<>> THEN FALSE
            ELSE IF x = <<>> THEN TRUE
            ELSE IF x[1] = y[1] THEN less(Tail(x), Tail(y))
            ELSE code(x[1]) < code(y[1])
    IN  less(a, b)

\* sort.Strings(files): the least string is taken out, again and again
SortStrings(files) ==
    LET RECURSIVE sel(_)
        sel(q) ==
            IF q = <<>> THEN <<>>
            ELSE LET m == CHOOSE n \in 1..Len(q) :
                              \A k \in 1..Len(q) : ~StringsLess(q[k], q[n])
                 IN  <<q[m]>> \o sel(SubSeq(q, 1, m - 1)
                                     \o SubSeq(q, m + 1, Len(q)))
    IN  sel(files)

\* filepath.Glob(filepath.Join(pkgDir, "*.go")) in a directory that holds
\* the files names: Join cleans the pattern, so that a leading ./ goes and
\* the directory . leaves the bare names; Glob sorts the names it matches
Glob(pkgDir, names) ==
    LET dir == IF pkgDir = <<".">> THEN <<>>
               ELSE IF HasPrefix(pkgDir, <<".", "/">>)
               THEN SubSeq(pkgDir, 3, Len(pkgDir)) \o <<"/">>
               ELSE pkgDir \o <<"/">>
        RECURSIVE matches(_)
        matches(q) ==
            IF q = <<>> THEN <<>>
            ELSE (IF HasSuffix(Head(q), SufGo) THEN <<dir \o Head(q)>>
                  ELSE <<>>) \o matches(Tail(q))
        RECURSIVE list(_)
        list(S) ==
            IF S = {} THEN <<>>
            ELSE LET x == CHOOSE y \in S : TRUE
                 IN  <<x>> \o list(S \ {x})
    IN  matches(SortStrings(list(names)))

\* mutant of PrecompileBuildPackage: the case of the _test.go suffix is missing
PrecompileBuildPackageNoTestCase(pkg, fileOrPkg, isDir, names) ==
    LET RECURSIVE keep(_)
        keep(q) ==
            IF q = <<>> THEN <<>>
            ELSE (IF \/ HasPrefix(Head(q), <<".">>)
                     \/ HasSuffix(Head(q), <<"_","f","i","l","e","t","e","s","t">> \o SufGo)
                     \/ HasSuffix(Head(q), <<"_","f","i","l","e","t","e","s","t">> \o SufGnoGenGo)
                     \/ HasSuffix(Head(q), <<"_","t","e","s","t">> \o SufGnoGenGo)
                  THEN <<>> ELSE <<Head(q)>>) \o keep(Tail(q))
        files == IF isDir THEN keep(Glob(fileOrPkg, names)) ELSE <<fileOrPkg>>
    IN  IF pkg = "precompile" /\ ~isDir
        THEN [compiled |-> FALSE, files |-> <<>>]
        ELSE [compiled |-> TRUE, files |-> SortStrings(files)]

\* PrecompileBuildPackage(fileOrPkg, goBinary) of package pkg, on a path that
\* exists: whether the compiler is run, and the files it is given.  Package
\* precompile lists fileOrPkg as a directory first (line 726) and returns
\* the error of that when it is a file.
PrecompileBuildPackage(pkg, fileOrPkg, isDir, names) ==
    LET RECURSIVE keep(_)
        keep(q) ==
            IF q = <<>> THEN <<>>
            ELSE (IF \/ HasPrefix(Head(q), <<".">>)
                     \/ HasSuffix(Head(q), <<"_","f","i","l","e","t","e","s","t">> \o SufGo)
                     \/ HasSuffix(Head(q), <<"_","f","i","l","e","t","e","s","t">> \o SufGnoGenGo)
                     \/ HasSuffix(Head(q), <<"_","t","e","s","t">> \o SufGo)
                     \/ HasSuffix(Head(q), <<"_","t","e","s","t">> \o SufGnoGenGo)
                  THEN <<>> ELSE <<Head(q)>>) \o keep(Tail(q))
        files == IF isDir THEN keep(Glob(fileOrPkg, names)) ELSE <<fileOrPkg>>
    IN  IF pkg = "precompile" /\ ~isDir
        THEN [compiled |-> FALSE, files |-> <<>>]
        ELSE [compiled |-> TRUE, files |-> SortStrings(files)]

\* the paths PrecompileBuildPackage is called with: d, /d, ./d, ../d and .
PkgDirs ==
    { <<"d">>, <<"/", "d">>, <<".", "/", "d">>, <<".", ".", "/", "d">>, <<".">> }

\* the files of a directory: artifacts of the three naming schemes, and Go
\* files written by hand: x.go, x_test.go, x_filetest.go
DirFiles ==
    { FilenameAndTags(v, p).targetFilename :
        v \in {"precompile", "gnolang", "gnolang pure"},
        p \in {NameImpl, NameMain, NameTest, NameFiletest, NameBareTest} }
    \cup { <<"x">> \o SufGo, <<"x","_","t","e","s","t">> \o SufGo,
           <<"x","_","f","i","l","e","t","e","s","t">> \o SufGo }

----------------------------------------------------------------------------
(* The pure functions, applied to drawn arguments. *)

SourceLits ==
    { Lit(DQ, PathStd), Lit(DQ, PathFmt), Lit(DQ, PathOs), Lit(DQ, PathRealm),
      Lit(BQ, PathStd), Lit(BQ, PathOs) }

\* a source text: whether it parses, the import literals it holds, and
\* whether its tree can be rendered
Sources ==
    { [parseOK |-> FALSE, imports |-> <<>>, renderOK |-> FALSE] }
    \cup { [parseOK |-> TRUE, imports |-> l, renderOK |-> r] :
             l \in SeqsUpTo(SourceLits, MaxImports), r \in BOOLEAN }

----------------------------------------------------------------------------
(* The file system the flows run on. *)

\* the package directories an import can resolve to
Pkgs == {"p1", "p2"}

\* the temporary directory of the in-memory mode, as a package directory
TmpPkg == "tmp"

\* the *.gno files of each directory, in the order Glob lists them
FilesOf(p) ==
    CASE p = "tmp" -> <<"m1">>
      [] p = "p1"  -> <<"a1", "a2">>
      [] p = "p2"  -> <<"b1">>

Range(seq) == { seq[n] : n \in 1..Len(seq) }

AllFiles == UNION { Range(FilesOf(p)) : p \in Pkgs \cup {TmpPkg} }

PkgOf(f) == CHOOSE p \in Pkgs \cup {TmpPkg} : f \in Range(FilesOf(p))

\* a file not read yet
Unread == [read |-> FALSE, ok |-> FALSE, imports |-> <<>>]

\* the state of the flow before PrecompileAndCheckPkg is entered
FlowIdle ==
    /\ src = [f \in AllFiles |-> Unread]
    /\ status = "running"
    /\ retErr = "none"
    /\ pc = "start"
    /\ loopIdx = 1
    /\ errCount = 0
    /\ tmpDir = "none"
    /\ precompiled = {}
    /\ stack = <<>>
    /\ ret = "none"
    /\ translated = [f \in AllFiles |-> 0]
    /\ written = [f \in AllFiles |-> 0]
    /\ artifacts = {}
    /\ cleaned = {}
    /\ built = {}
    /\ faults = 0
    /\ prevRun = <<>>

Idle == [fn |-> "idle"]

InitFn ==
    /\ call = Idle
    /\ isMem = FALSE
    /\ cfg = [SkipFmt |-> FALSE, SkipImports |-> FALSE]
    /\ roots = <<>>
    /\ FlowIdle

CallPrecompileAST ==
    /\ call = Idle
    /\ \E imps \in ImportLists, cw \in BOOLEAN :
         call' = [ fn |-> "precompileAST", imports |-> imps,
                   checkWhitelist |-> cw, out |-> precompileAST(imps, cw) ]
    /\ UNCHANGED flowVars

CallPrecompile ==
    /\ call = Idle
    /\ \E source \in Sources, tags \in TagArgs, filename \in Filenames :
         call' = [ fn |-> "Precompile", source |-> source, tags |-> tags,
                   filename |-> filename,
                   out |-> Precompile(source, tags, filename) ]
    /\ UNCHANGED flowVars

\* two calls of GetPrecompileFilenameAndTags, on the paths a and b
CallGetPrecompileFilenameAndTags ==
    /\ call = Idle
    /\ \E variant \in {"precompile", "gnolang", "gnolang pure"},
          a \in GnoFilePaths, b \in GnoFilePaths :
         call' = [ fn |-> "GetPrecompileFilenameAndTags", variant |-> variant,
                   a |-> a, b |-> b,
                   outA |-> FilenameAndTags(variant, a),
                   outB |-> FilenameAndTags(variant, b) ]
    /\ UNCHANGED flowVars

CallParseResult ==
    /\ call = Idle
    /\ \E input \in CapturedTexts, path \in LogicalPaths :
         \/ call' = [ fn |-> "parseResult", entry |-> "main.gno.gen.go",
                      input |-> input, path |-> path,
                      out |-> parseResult(input, path) ]
         \/ call' = [ fn |-> "parseResult", entry |-> "main.go",
                      input |-> input, path |-> path,
                      out |-> identifyCommandLineArguments(input, path) ]
    /\ UNCHANGED flowVars

CallPrecompileRun ==
    /\ call = Idle
    /\ \E run \in RunOutcomes, path \in LogicalPaths :
         \/ call' = [ fn |-> "PrecompileRun", pkg |-> "precompile",
                      run |-> run, path |-> path,
                      out |-> PrecompileRun(run, path) ]
         \/ call' = [ fn |-> "PrecompileRun", pkg |-> "gnolang",
                      run |-> run, path |-> path,
                      out |-> gnolangPrecompileRun(run, path) ]
    /\ UNCHANGED flowVars

\* the translation loop of PrecompileAndCheckPkg in the in-memory mode
CallPrecompileAndCheckPkg ==
    /\ call = Idle
    /\ \E Files \in MemPackages :
         call' = [ fn |-> "PrecompileAndCheckPkg", Files |-> Files,
                   out |-> PrecompileAndCheckPkgErr(Files) ]
    /\ UNCHANGED flowVars

CallPrecompileAndRunMempkg ==
    /\ call = Idle
    /\ \E pkg \in {"precompile", "gnolang"}, Files \in MemPackages,
          tmpOK \in BOOLEAN :
         call' = [ fn |-> "PrecompileAndRunMempkg", pkg |-> pkg,
                   Files |-> Files, path |-> "P", tmpOK |-> tmpOK,
                   out |-> PrecompileAndRunMempkg(pkg, Files, "P", tmpOK) ]
    /\ UNCHANGED flowVars

CallPrecompileBuildPackage ==
    /\ call = Idle
    /\ \E pkg \in {"precompile", "gnolang"}, fileOrPkg \in PkgDirs,
          isDir \in BOOLEAN, q \in SeqsUpTo(DirFiles, MaxDirFiles) :
         call' = [ fn |-> "PrecompileBuildPackage", pkg |-> pkg,
                   fileOrPkg |-> fileOrPkg, isDir |-> isDir,
                   names |-> Range(q),
                   out |-> PrecompileBuildPackage(pkg, fileOrPkg, isDir,
                                                  Range(q)) ]
    /\ UNCHANGED flowVars

Return ==
    /\ call # Idle
    /\ call' = Idle
    /\ UNCHANGED flowVars

NextFn ==
    \/ CallPrecompileAST
    \/ CallPrecompile
    \/ CallGetPrecompileFilenameAndTags
    \/ CallParseResult
    \/ CallPrecompileRun
    \/ CallPrecompileAndCheckPkg
    \/ CallPrecompileAndRunMempkg
    \/ CallPrecompileBuildPackage
    \/ Return

SpecFn == InitFn /\ [][NextFn]_vars

----------------------------------------------------------------------------
(* Properties of the import policy and of Precompile (SpecFn). *)

NumAt(seq, x) == Cardinality({ i \in 1..Len(seq) : seq[i] = x })

WlEntries(errs) == SelectSeq(errs, LAMBDA e : e.kind = "whitelist")

\* the import paths as the whitelist pass reads them
ReadPaths(imps) == [i \in 1..Len(imps) |-> TrimQuotes(imps[i])]

\* the whitelist pass has run on the call's import list
PolicyRan ==
    \/ call.fn = "precompileAST" /\ call.checkWhitelist
    \/ /\ call.fn = "Precompile"
       /\ call.source.parseOK
       /\ ~HasSuffix(call.filename, SufTestGno)
       /\ ~HasSuffix(call.filename, SufFiletestGno)

CallImports ==
    IF call.fn = "precompileAST" THEN call.imports ELSE call.source.imports

CallErrs ==
    IF call.fn = "precompileAST" THEN call.out.errs ELSE call.out.err

\* a path the policy rejects, by the entries it produced for a one-import list
Disallowed(p) == ~IsWhitelisted(p)

\* C5 (as stated): with whitelist checking on, the aggregate error holds
\* exactly one violation entry per distinct disallowed import path, however
\* often the module imports that path.
C5_OneEntryPerDistinctPath ==
    PolicyRan =>
        \A i \in 1..Len(CallImports) :
            LET p == ReadPaths(CallImports)[i]
            IN  Disallowed(p) =>
                    NumAt(WlEntries(CallErrs), WhitelistErr(p)) = 1

\* C5 (amended): with whitelist checking on, the aggregate error holds
\* exactly one violation entry per import spec whose path is disallowed, in
\* one pass and in source order: a disallowed path imported k times
\* contributes k entries, an allowed path none.
C5_OneEntryPerDisallowedSpec ==
    PolicyRan =>
        /\ \A i \in 1..Len(CallImports) :
               LET p == ReadPaths(CallImports)[i]
               IN  NumAt(WlEntries(CallErrs), WhitelistErr(p))
                     = IF Disallowed(p) THEN NumAt(ReadPaths(CallImports), p)
                       ELSE 0
        /\ Len(WlEntries(CallErrs))
             = Cardinality({ i \in 1..Len(CallImports) :
                               Disallowed(ReadPaths(CallImports)[i]) })

\* C5 witness: a module importing the same disallowed path twice got two
\* entries for it.
C5_Witness ==
    /\ PolicyRan
    /\ Len(CallImports) = 2
    /\ CallImports[1] = CallImports[2]
    /\ CallImports[1] = Lit(DQ, PathOs)
    /\ Len(WlEntries(CallErrs)) = 2

\* C6: for a file name ending in _test.gno or _filetest.gno Precompile
\* produces no whitelist-violation entry whatever the module imports; entries
\* appear only for file names with neither suffix.
C6_TestFilesSkipWhitelist ==
    call.fn = "Precompile" =>
        /\ (HasSuffix(call.filename, SufTestGno)
              \/ HasSuffix(call.filename, SufFiletestGno))
             => WlEntries(call.out.err) = <<>>
        /\ WlEntries(call.out.err) # <<>>
             => /\ ~HasSuffix(call.filename, SufTestGno)
                /\ ~HasSuffix(call.filename, SufFiletestGno)

\* C6 witness: a file-test module importing a path outside the whitelist was
\* translated without error.
C6_Witness ==
    /\ call.fn = "Precompile"
    /\ call.filename = NameFiletest
    /\ call.source.parseOK
    /\ \E i \in 1..Len(call.source.imports) :
           call.source.imports[i] = Lit(DQ, PathOs)
    /\ call.out.err = NilErr
    /\ call.out.res # NilRes

\* the acceptance rule of the claim, on an import path
ClaimAccepts(p) ==
    \/ HasPrefix(p, GnoRealmPkgsPrefixBefore)
    \/ HasPrefix(p, GnoPackagePrefixBefore)
    \/ p \in { stdlibWhitelist[i] : i \in 1..Len(stdlibWhitelist) }
    \/ \E w \in { importPrefixWhitelist[i] : i \in 1..Len(importPrefixWhitelist) } :
           HasPrefix(p, w)

\* C7: in the whitelist pass an import path is accepted iff it has the realm
\* prefix or the package prefix, or equals an entry of stdlibWhitelist, or has
\* a prefix of importPrefixWhitelist; every other import is a violation.
C7_AcceptedIffWhitelisted ==
    (call.fn = "precompileAST" /\ call.checkWhitelist) =>
        Len(WlEntries(call.out.errs))
          = Cardinality({ i \in 1..Len(call.imports) :
                            ~ClaimAccepts(astImportPath(call.imports[i])) })

\* the rewrite rule of the claim, on an import path
ClaimTarget(p) ==
    IF p = GnoStdPkgBefore THEN GnoStdPkgAfter
    ELSE IF HasPrefix(p, GnoPackagePrefixBefore)
         THEN GnoPackagePrefixAfter \o SubSeq(p, Len(GnoPackagePrefixBefore) + 1, Len(p))
    ELSE IF HasPrefix(p, GnoRealmPkgsPrefixBefore)
         THEN GnoRealmPkgsPrefixAfter \o SubSeq(p, Len(GnoRealmPkgsPrefixBefore) + 1, Len(p))
    ELSE p

\* C8: after precompileAST, whatever the whitelist outcome and the position
\* of an import, std is the shim path, a gno.land/p/demo/ path and a
\* gno.land/r/ path have the new prefix and the old suffix, and every other
\* import path is unchanged.
C8_EveryImportRewritten ==
    call.fn = "precompileAST" =>
        /\ Len(call.out.node) = Len(call.imports)
        /\ \A i \in 1..Len(call.imports) :
               astImportPath(call.out.node[i])
                 = ClaimTarget(astImportPath(call.imports[i]))

RuleOrders ==
    { <<"std", "pkg", "realm">>, <<"std", "realm", "pkg">>,
      <<"pkg", "std", "realm">>, <<"pkg", "realm", "std">>,
      <<"realm", "std", "pkg">>, <<"realm", "pkg", "std">> }

RulesMatching(p) == { r \in {"std", "pkg", "realm"} : RuleMatches(r, p) }

\* the errors precompileAST had collected when the rewrite pass began
ErrsBeforeRewrite ==
    IF call.checkWhitelist THEN WlEntries(call.out.errs) ELSE NilErr

\* C9: no import path matches more than one of the three rewrite rules, no
\* rewritten target matches a rule, and visiting the import specs and trying
\* the rules in any order gives the same rewritten import list.
C9_RewriteRulesDisjoint ==
    call.fn = "precompileAST" =>
        /\ \A i \in 1..Len(call.imports) :
               /\ Cardinality(RulesMatching(TrimQuotes(call.imports[i]))) <= 1
               /\ Cardinality(RulesMatching(astImportPath(call.imports[i]))) <= 1
               /\ call.out.node[i] # call.imports[i]
                    => /\ RulesMatching(TrimQuotes(call.out.node[i])) = {}
                       /\ RulesMatching(astImportPath(call.out.node[i])) = {}
        /\ \A order \in Permutations(1..Len(call.imports)), rules \in RuleOrders :
               RewritePass([imps |-> call.imports, errs |-> ErrsBeforeRewrite],
                           order, 1, rules).imps = call.out.node

\* C9 witness: a list of two different imports, both rewritten, by two
\* different rules.
C9_Witness ==
    /\ call.fn = "precompileAST"
    /\ Len(call.imports) = 2
    /\ call.imports[1] = Lit(DQ, PathRealm)
    /\ call.imports[2] = Lit(DQ, PathStd)
    /\ call.out.node[1] = Lit(DQ, GnoRealmPkgsPrefixAfter \o <<"x">>)
    /\ call.out.node[2] = Lit(DQ, GnoStdPkgAfter)

\* the import policy's verdict on the call's module
PolicyErrs ==
    precompileAST(call.source.imports,
                  ~(HasSuffix(call.filename, SufTestGno)
                      \/ HasSuffix(call.filename, SufFiletestGno))).errs

\* C10 (as stated): when the import policy returns a non-nil aggregate error
\* for a module that parsed, Precompile still returns the generated text
\* together with that error.
C10_TextReturnedWithError ==
    (call.fn = "Precompile" /\ call.source.parseOK /\ PolicyErrs # NilErr) =>
        /\ call.out.err = PolicyErrs
        /\ call.out.res # NilRes

\* C10 (amended): when the import policy returns a non-nil aggregate error
\* for a module that parsed, Precompile returns that error and a nil result:
\* no generated text reaches the caller.
C10_NoTextWithError ==
    (call.fn = "Precompile" /\ call.source.parseOK /\ PolicyErrs # NilErr) =>
        /\ call.out.err = PolicyErrs
        /\ call.out.res = NilRes

\* C10 witness: an implementation module importing a path outside the
\* whitelist came back with the violation and without a result.
C10_Witness ==
    /\ call.fn = "Precompile"
    /\ call.filename = NameImpl
    /\ call.source.parseOK
    /\ call.source.imports = <<Lit(DQ, PathOs)>>
    /\ call.out.err = <<WhitelistErr(PathOs)>>
    /\ call.out.res = NilRes

----------------------------------------------------------------------------
(* PrecompileAndCheckPkg, PrecompileFile and PrecompilePkg as a state machine *)

\* the stack never runs deeper: a PrecompileFile frame for a root file, then
\* one PrecompilePkg and one PrecompileFile frame per package, then the
\* PrecompilePkg call that finds its package marked
MaxDepth == 2 * (Cardinality(Pkgs) + 1)

NoDupSeqs(S, n) ==
    { q \in SeqsUpTo(S, n) : \A x, y \in 1..Len(q) : q[x] = q[y] => x = y }

\* what Precompile can show of a file: it fails (parse or policy), or it
\* succeeds and getPathsFromImportSpec maps its imports to package directories
SrcChoices ==
    { [read |-> TRUE, ok |-> FALSE, imports |-> <<>>] }
    \cup { [read |-> TRUE, ok |-> TRUE, imports |-> l] :
             l \in NoDupSeqs(Pkgs, Cardinality(Pkgs)) }

\* the paths argument: package directories, none twice
RootLists == { q \in NoDupSeqs(Pkgs, Cardinality(Pkgs)) : q # <<>> }

\* GnoFilesFromArgs(targetPaths): the .gno files of the given directories
RECURSIVE GnoFilesFromArgs(_)
GnoFilesFromArgs(paths) ==
    IF paths = <<>> THEN <<>>
    ELSE FilesOf(Head(paths)) \o GnoFilesFromArgs(Tail(paths))

\* GnoPackagesFromArgs(targetPaths): the package directories among them
GnoPackagesFromArgs(paths) == paths

\* the artifacts CleanGeneratedFiles(path) removes: those of the directory, or
\* the one generated from the file
GeneratedUnder(path) ==
    IF path \in Pkgs \cup {TmpPkg} THEN Range(FilesOf(path)) ELSE {path}

IsPrecompiled(set, pkg) == pkg \in set

\* mutant of MarkAsPrecompiled: the package path is not recorded
MarkAsPrecompiledNoop(set, pkg) == set

MarkAsPrecompiled(set, pkg) == set \cup {pkg}

Init ==
    /\ call = Idle
    /\ isMem \in BOOLEAN
    /\ cfg \in [SkipFmt : BOOLEAN, SkipImports : BOOLEAN]
    /\ roots \in IF isMem THEN {<<TmpPkg>>} ELSE RootLists
    /\ FlowIdle

Running == status = "running"

InFlow(at) == Running /\ stack = <<>> /\ pc = at

Top == stack[Len(stack)]

InFrame(fn, at) ==
    /\ Running
    /\ stack # <<>>
    /\ Top.fn = fn
    /\ Top.pc = at

SetTop(fr) == [stack EXCEPT ![Len(stack)] = fr]

Popped == SubSeq(stack, 1, Len(stack) - 1)

FileFrame(f) == [fn |-> "File", id |-> f, pc |-> "translate", idx |-> 1]

PkgFrame(p) == [fn |-> "Pkg", id |-> p, pc |-> "enter", idx |-> 1]

\* defer os.RemoveAll(tmpDir): the directory goes, with the artifacts in it,
\* or the removal fails and its error is discarded
DeferredRemoveAll ==
    IF tmpDir = "exists"
    THEN \/ /\ tmpDir' = "removed"
            /\ artifacts' = artifacts \ Range(FilesOf(TmpPkg))
         \/ /\ tmpDir' = "remove failed"
            /\ artifacts' = artifacts
    ELSE UNCHANGED <<tmpDir, artifacts>>

\* a return statement of PrecompileAndCheckPkg
FlowReturn(err) ==
    /\ status' = "returned"
    /\ retErr' = err
    /\ DeferredRemoveAll

\* panic(err): the deferred calls run while the stack unwinds
FlowPanic ==
    /\ status' = "panicked"
    /\ retErr' = "panic"
    /\ DeferredRemoveAll

\* log.Fatal(err): os.Exit(1), no deferred call runs
FlowFatal ==
    /\ status' = "exited"
    /\ retErr' = "fatal"
    /\ UNCHANGED <<tmpDir, artifacts>>

frameVars == <<stack, ret, precompiled, src, translated, written>>

flowCtl == <<pc, loopIdx, errCount, cleaned, built>>

\* a failure of the environment that the flow survives; such failures are
\* followed in the first run of a behaviour
Fault ==
    /\ faults < MaxFaults
    /\ prevRun = <<>>
    /\ faults' = faults + 1

inputs == <<call, isMem, cfg, roots, prevRun>>

same == <<inputs, faults>>

SrcPaths == GnoFilesFromArgs(roots)

\* mutant of execMakeRun: the error of PrecompileAndCheckPkg is not looked at
execMakeRunNoCheck(err, Broadcast, sendOK) ==
    IF Broadcast
    THEN [ tx |-> "given to ExecSignAndBroadcast",
           result |-> IF sendOK THEN "nil" ELSE "broadcast error" ]
    ELSE [tx |-> "printed", result |-> "nil"]

\* keyscli/run.go, execMakeRun from line 113 on: err is what
\* PrecompileAndCheckPkg(true, memPkg, nil, nil) returned; the transaction
\* is constructed, then signed and broadcast or printed
execMakeRun(err, Broadcast, sendOK) ==
    IF err # "nil" THEN [tx |-> "none", result |-> "panic"]
    ELSE IF Broadcast
    THEN [ tx |-> "given to ExecSignAndBroadcast",
           result |-> IF sendOK THEN "nil" ELSE "broadcast error" ]
    ELSE [tx |-> "printed", result |-> "nil"]

\* execMakeRun goes on after its call of PrecompileAndCheckPkg has returned
ExecMakeRun ==
    /\ status = "returned"
    /\ isMem
    /\ prevRun = <<>>
    /\ call = Idle
    /\ \E Broadcast, sendOK \in BOOLEAN :
           call' = [ fn |-> "execMakeRun", Broadcast |-> Broadcast,
                     out |-> execMakeRun(retErr, Broadcast, sendOK) ]
    /\ UNCHANGED flowVars

\* PrecompileAndCheckPkg is called once more, with the arguments and the
\* files of the run before: its local variables are new, what is on disk
\* stays, and the options of the run before are garbage not yet collected.
\* The second call is followed after a run that came to the end of its
\* translation loop without a failure of the environment.
Invoke ==
    /\ status = "returned"
    /\ retErr \in {"nil", "precompile errors"}
    /\ faults = 0
    /\ prevRun = <<>>
    /\ call = Idle
    /\ prevRun' = <<[translated |-> translated, retErr |-> retErr,
                    faults |-> faults]>>
    /\ status' = "running"
    /\ retErr' = "none"
    /\ pc' = "start"
    /\ loopIdx' = 1
    /\ errCount' = 0
    /\ tmpDir' = "none"
    /\ stack' = <<>>
    /\ ret' = "none"
    /\ translated' = [f \in AllFiles |-> 0]
    /\ written' = [f \in AllFiles |-> 0]
    /\ cleaned' = {}
    /\ built' = {}
    /\ UNCHANGED <<call, isMem, cfg, roots, src, precompiled, artifacts,
                   faults>>

\* lines 345-356 and 371-373: the temporary directory of the in-memory mode
Start ==
    /\ InFlow("start")
    /\ IF isMem
       THEN tmpDir' = "exists" /\ pc' = "memwrite"
       ELSE tmpDir' = tmpDir /\ pc' = "list"
    /\ UNCHANGED <<same, frameVars, status, retErr, loopIdx, errCount,
                   artifacts, cleaned, built>>

\* lines 350-353: os.MkdirTemp fails
MkdirTempFail ==
    /\ InFlow("start")
    /\ isMem
    /\ FlowReturn("mkdirtemp")
    /\ UNCHANGED <<same, frameVars, flowCtl>>

\* lines 358-370: the files of the MemPackage are written to the directory
WriteMemFiles ==
    /\ InFlow("memwrite")
    /\ pc' = "list"
    /\ UNCHANGED <<same, frameVars, status, retErr, loopIdx, errCount,
                   tmpDir, artifacts, cleaned, built>>

\* lines 365-368: os.WriteFile fails
WriteMemFilePanic ==
    /\ InFlow("memwrite")
    /\ FlowPanic
    /\ UNCHANGED <<same, frameVars, flowCtl>>

\* mutant of ListFiles: the options of the run before are used again
ListFilesSameOptions ==
    /\ InFlow("list")
    /\ pc' = "loop"
    /\ loopIdx' = 1
    /\ errCount' = 0
    /\ UNCHANGED <<same, frameVars, status, retErr, tmpDir, artifacts,
                   cleaned, built>>

\* lines 384-389: NewPrecompileOptions makes the options of this run, with an
\* empty Precompiled map of their own; GnoFilesFromArgs lists the files
ListFiles ==
    /\ InFlow("list")
    /\ pc' = "loop"
    /\ loopIdx' = 1
    /\ errCount' = 0
    /\ precompiled' = {}
    /\ UNCHANGED <<same, stack, ret, src, translated, written, status,
                   retErr, tmpDir, artifacts, cleaned, built>>

ListFilesFail ==
    /\ InFlow("list")
    /\ FlowReturn("list paths")
    /\ UNCHANGED <<same, frameVars, flowCtl>>

\* line 394: PrecompileFile(srcPath, opts)
RootCallFile ==
    /\ InFlow("loop")
    /\ ret = "none"
    /\ loopIdx <= Len(SrcPaths)
    /\ stack' = <<FileFrame(SrcPaths[loopIdx])>>
    /\ UNCHANGED <<same, ret, precompiled, src, translated, written, status,
                   retErr, flowCtl, tmpDir, artifacts>>

\* lines 395-417: the error is counted, the directory is listed
RootFileReturned ==
    /\ InFlow("loop")
    /\ ret # "none"
    /\ errCount' = IF ret # "nil" THEN errCount + 1 ELSE errCount
    /\ ret' = "none"
    /\ loopIdx' = loopIdx + 1
    /\ UNCHANGED <<same, stack, precompiled, src, translated, written,
                   status, retErr, pc, cleaned, built, tmpDir, artifacts>>

\* lines 401-413: ioutil.ReadDir or os.ReadFile fails, the flow returns at once
RootDirListingFail ==
    /\ InFlow("loop")
    /\ ret # "none"
    /\ FlowReturn("readdir")
    /\ UNCHANGED <<same, frameVars, flowCtl>>

\* mutant of RootLoopDone: errCount is not looked at after the loop
RootLoopDoneNoCheck ==
    /\ InFlow("loop")
    /\ ret = "none"
    /\ loopIdx > Len(SrcPaths)
    /\ pc' = "listpkgs"
    /\ UNCHANGED <<status, retErr, tmpDir, artifacts>>
    /\ UNCHANGED <<same, frameVars, loopIdx, errCount, cleaned, built>>

\* lines 419-421
RootLoopDone ==
    /\ InFlow("loop")
    /\ ret = "none"
    /\ loopIdx > Len(SrcPaths)
    /\ IF errCount > 0
       THEN /\ FlowReturn("precompile errors")
            /\ UNCHANGED pc
       ELSE /\ pc' = "listpkgs"
            /\ UNCHANGED <<status, retErr, tmpDir, artifacts>>
    /\ UNCHANGED <<same, frameVars, loopIdx, errCount, cleaned, built>>

\* lines 424-430: GnoPackagesFromArgs
ListPkgs ==
    /\ InFlow("listpkgs")
    /\ pc' = "build"
    /\ loopIdx' = 1
    /\ errCount' = 0
    /\ UNCHANGED <<same, frameVars, status, retErr, tmpDir, artifacts,
                   cleaned, built>>

ListPkgsFail ==
    /\ InFlow("listpkgs")
    /\ FlowReturn("list packages")
    /\ UNCHANGED <<same, frameVars, flowCtl>>

\* lines 431-439: GoBuildFileOrPkg on each package path
Build ==
    /\ InFlow("build")
    /\ loopIdx <= Len(GnoPackagesFromArgs(roots))
    /\ built' = built \cup {GnoPackagesFromArgs(roots)[loopIdx]}
    /\ \/ errCount' = errCount /\ faults' = faults
       \/ errCount' = errCount + 1 /\ Fault
    /\ loopIdx' = loopIdx + 1
    /\ UNCHANGED <<inputs, frameVars, status, retErr, pc, tmpDir, artifacts,
                   cleaned>>

BuildDone ==
    /\ InFlow("build")
    /\ loopIdx > Len(GnoPackagesFromArgs(roots))
    /\ pc' = "cleanroots"
    /\ loopIdx' = 1
    /\ UNCHANGED <<same, frameVars, status, retErr, errCount, tmpDir,
                   artifacts, cleaned, built>>

\* lines 442-448: CleanGeneratedFiles on each root source path
CleanRoot ==
    /\ InFlow("cleanroots")
    /\ loopIdx <= Len(SrcPaths)
    /\ cleaned' = cleaned \cup {SrcPaths[loopIdx]}
    /\ artifacts' = artifacts \ GeneratedUnder(SrcPaths[loopIdx])
    /\ loopIdx' = loopIdx + 1
    /\ UNCHANGED <<same, frameVars, status, retErr, pc, errCount, tmpDir,
                   built>>

CleanRootPanic ==
    /\ InFlow("cleanroots")
    /\ loopIdx <= Len(SrcPaths)
    /\ FlowPanic
    /\ UNCHANGED <<same, frameVars, flowCtl>>

CleanRootsDone ==
    /\ InFlow("cleanroots")
    /\ loopIdx > Len(SrcPaths)
    /\ pc' = "cleanimported"
    /\ UNCHANGED <<same, frameVars, status, retErr, loopIdx, errCount,
                   tmpDir, artifacts, cleaned, built>>

\* lines 450-457: CleanGeneratedFiles on each key of opts.Precompiled, in the
\* order the map yields them
CleanImported ==
    /\ InFlow("cleanimported")
    /\ \E p \in precompiled \ cleaned :
           /\ cleaned' = cleaned \cup {p}
           /\ artifacts' = artifacts \ GeneratedUnder(p)
    /\ UNCHANGED <<same, frameVars, status, retErr, pc, loopIdx, errCount,
                   tmpDir, built>>

CleanImportedPanic ==
    /\ InFlow("cleanimported")
    /\ precompiled \ cleaned # {}
    /\ FlowPanic
    /\ UNCHANGED <<same, frameVars, flowCtl>>

\* lines 459-463
Finish ==
    /\ InFlow("cleanimported")
    /\ precompiled \subseteq cleaned
    /\ FlowReturn(IF errCount > 0 THEN "build errors" ELSE "nil")
    /\ UNCHANGED <<same, frameVars, flowCtl>>

\* PrecompileFile, lines 216-231: the file is read and translated
FileTranslate ==
    /\ InFrame("File", "translate")
    /\ \E a \in (IF src[Top.id].read THEN {src[Top.id]} ELSE SrcChoices) :
           /\ src' = [src EXCEPT ![Top.id] = a]
           /\ IF a.ok
              THEN stack' = SetTop([Top EXCEPT !.pc = "write"]) /\ ret' = ret
              ELSE stack' = Popped /\ ret' = "translate"
    /\ translated' = [translated EXCEPT ![Top.id] = @ + 1]
    /\ UNCHANGED <<same, precompiled, written, status, retErr, flowCtl,
                   tmpDir, artifacts>>

\* lines 216-219: os.ReadFile fails
FileReadFail ==
    /\ Fault
    /\ InFrame("File", "translate")
    /\ stack' = Popped
    /\ ret' = "read"
    /\ UNCHANGED <<inputs, precompiled, src, translated, written, status,
                   retErr, flowCtl, tmpDir, artifacts>>

\* mutant of FileWrite: the format check is passed over
FileWriteNoCheck ==
    /\ InFrame("File", "write")
    /\ written' = [written EXCEPT ![Top.id] = @ + 1]
    /\ artifacts' = artifacts \cup {Top.id}
    /\ stack' = SetTop([Top EXCEPT !.pc = "imports"])
    /\ UNCHANGED <<same, ret, precompiled, src, translated, status, retErr,
                   flowCtl, tmpDir>>

\* lines 233-250: the target path is resolved and the artifact written
FileWrite ==
    /\ InFrame("File", "write")
    /\ written' = [written EXCEPT ![Top.id] = @ + 1]
    /\ artifacts' = artifacts \cup {Top.id}
    /\ stack' = SetTop([Top EXCEPT !.pc = IF cfg.SkipFmt THEN "imports"
                                           ELSE "fmt"])
    /\ UNCHANGED <<same, ret, precompiled, src, translated, status, retErr,
                   flowCtl, tmpDir>>

\* lines 236-239 and 247-250: resolvePath or writeDirFile fails
FileWriteFail ==
    /\ Fault
    /\ InFrame("File", "write")
    /\ stack' = Popped
    /\ ret' = "write"
    /\ UNCHANGED <<inputs, precompiled, src, translated, written, status,
                   retErr, flowCtl, tmpDir, artifacts>>

\* lines 253-258: PrecompileVerifyFile
FileFmt ==
    /\ InFrame("File", "fmt")
    /\ stack' = SetTop([Top EXCEPT !.pc = "imports"])
    /\ UNCHANGED <<same, ret, precompiled, src, translated, written, status,
                   retErr, flowCtl, tmpDir, artifacts>>

FileFmtFail ==
    /\ Fault
    /\ InFrame("File", "fmt")
    /\ stack' = Popped
    /\ ret' = "fmt"
    /\ UNCHANGED <<inputs, precompiled, src, translated, written, status,
                   retErr, flowCtl, tmpDir, artifacts>>

\* line 266: PrecompilePkg(path, opts) for the next import
FileCallImport ==
    /\ InFrame("File", "imports")
    /\ ~cfg.SkipImports
    /\ ret = "none"
    /\ Top.idx <= Len(src[Top.id].imports)
    /\ Len(stack) < MaxDepth
    /\ stack' = Append(stack, PkgFrame(src[Top.id].imports[Top.idx]))
    /\ UNCHANGED <<same, ret, precompiled, src, translated, written, status,
                   retErr, flowCtl, tmpDir, artifacts>>

\* line 266: the value PrecompilePkg returned is dropped
FileImportReturned ==
    /\ InFrame("File", "imports")
    /\ ret # "none"
    /\ ret' = "none"
    /\ stack' = SetTop([Top EXCEPT !.idx = @ + 1])
    /\ UNCHANGED <<same, precompiled, src, translated, written, status,
                   retErr, flowCtl, tmpDir, artifacts>>

\* line 287: return nil
FileDone ==
    /\ InFrame("File", "imports")
    /\ ret = "none"
    /\ cfg.SkipImports \/ Top.idx > Len(src[Top.id].imports)
    /\ stack' = Popped
    /\ ret' = "nil"
    /\ UNCHANGED <<same, precompiled, src, translated, written, status,
                   retErr, flowCtl, tmpDir, artifacts>>

\* PrecompilePkg, lines 177-180: the package is already in the set
PkgSkip ==
    /\ InFrame("Pkg", "enter")
    /\ IsPrecompiled(precompiled, Top.id)
    /\ stack' = Popped
    /\ ret' = "nil"
    /\ UNCHANGED <<same, precompiled, src, translated, written, status,
                   retErr, flowCtl, tmpDir, artifacts>>

\* lines 181-183: the package is marked, then its files are globbed
PkgMark ==
    /\ InFrame("Pkg", "enter")
    /\ ~IsPrecompiled(precompiled, Top.id)
    /\ precompiled' = MarkAsPrecompiled(precompiled, Top.id)
    /\ stack' = SetTop([Top EXCEPT !.pc = "files"])
    /\ UNCHANGED <<same, ret, src, translated, written, status, retErr,
                   flowCtl, tmpDir, artifacts>>

\* lines 183-186: filepath.Glob fails, log.Fatal ends the process
PkgGlobFatal ==
    /\ InFrame("Pkg", "enter")
    /\ ~IsPrecompiled(precompiled, Top.id)
    /\ precompiled' = MarkAsPrecompiled(precompiled, Top.id)
    /\ FlowFatal
    /\ UNCHANGED <<same, stack, ret, src, translated, written, flowCtl>>

\* line 192: PrecompileFile(file, opts) for the next file of the package
PkgCallFile ==
    /\ InFrame("Pkg", "files")
    /\ ret = "none"
    /\ Top.idx <= Len(FilesOf(Top.id))
    /\ Len(stack) < MaxDepth
    /\ stack' = Append(stack, FileFrame(FilesOf(Top.id)[Top.idx]))
    /\ UNCHANGED <<same, ret, precompiled, src, translated, written, status,
                   retErr, flowCtl, tmpDir, artifacts>>

\* lines 192-194: an error of PrecompileFile ends PrecompilePkg with it
PkgFileReturned ==
    /\ InFrame("Pkg", "files")
    /\ ret # "none"
    /\ IF ret = "nil"
       THEN /\ ret' = "none"
            /\ stack' = SetTop([Top EXCEPT !.idx = @ + 1])
       ELSE /\ ret' = ret
            /\ stack' = Popped
    /\ UNCHANGED <<same, precompiled, src, translated, written, status,
                   retErr, flowCtl, tmpDir, artifacts>>

\* line 197: return nil
PkgDone ==
    /\ InFrame("Pkg", "files")
    /\ ret = "none"
    /\ Top.idx > Len(FilesOf(Top.id))
    /\ stack' = Popped
    /\ ret' = "nil"
    /\ UNCHANGED <<same, precompiled, src, translated, written, status,
                   retErr, flowCtl, tmpDir, artifacts>>

Next ==
    \/ Invoke \/ ExecMakeRun
    \/ Start \/ MkdirTempFail \/ WriteMemFiles \/ WriteMemFilePanic
    \/ ListFiles \/ ListFilesFail
    \/ RootCallFile \/ RootFileReturned \/ RootDirListingFail \/ RootLoopDone
    \/ ListPkgs \/ ListPkgsFail \/ Build \/ BuildDone
    \/ CleanRoot \/ CleanRootPanic \/ CleanRootsDone
    \/ CleanImported \/ CleanImportedPanic \/ Finish
    \/ FileTranslate \/ FileReadFail \/ FileWrite \/ FileWriteFail
    \/ FileFmt \/ FileFmtFail
    \/ FileCallImport \/ FileImportReturned \/ FileDone
    \/ PkgSkip \/ PkgMark \/ PkgGlobFatal
    \/ PkgCallFile \/ PkgFileReturned \/ PkgDone

Spec == Init /\ [][Next]_vars

\* the flow is one sequential Go call: a step that can be taken is taken
FairSpec == Spec /\ WF_vars(Next)

----------------------------------------------------------------------------
(* Properties of the flow (Spec, FairSpec). *)

\* C1: within one run each package has its modules translated at most once,
\* roots of the flow and packages reached through imports counted together,
\* and no module's artifact is written twice.
C1_TranslatedAtMostOnce ==
    \A f \in AllFiles : translated[f] <= 1 /\ written[f] <= 1

\* C2: the mutual recursion PrecompilePkg -> PrecompileFile -> PrecompilePkg
\* ends for every package graph, also when a package imports itself or two
\* packages import each other: every run of the flow comes to its end.
C2_RecursionTerminates == []<>(status # "running")

\* C2 witness: the flow returned after a file was translated whose package
\* is among its own imports, or among the imports of a package it imports.
C2_Witness ==
    /\ status = "returned"
    /\ \E f \in AllFiles :
           /\ translated[f] > 0
           /\ src[f].ok
           /\ PkgOf(f) \in precompiled
           /\ \/ PkgOf(f) \in Range(src[f].imports)
              \/ \E g \in AllFiles :
                     /\ PkgOf(g) # PkgOf(f)
                     /\ translated[g] > 0
                     /\ src[g].ok
                     /\ PkgOf(g) \in Range(src[f].imports)
                     /\ PkgOf(f) \in Range(src[g].imports)

\* C3: a temporary directory created by the flow no longer exists once the
\* flow has ended, whichever way it ended.
C3_TmpDirGoneAtEnd ==
    status # "running" => tmpDir \notin {"exists", "remove failed"}

\* C4: whenever PrecompileAndCheckPkg returns, with success, a translation
\* error count, a package listing error or a build error count,
\* CleanGeneratedFiles has been called for every root source path and every
\* package of PrecompiledSet, and no artifact of an imported package remains.
C4_CleanedWheneverReturned ==
    (status = "returned"
       /\ retErr \in {"nil", "precompile errors", "list packages", "build errors"})
    => /\ Range(SrcPaths) \cup precompiled \subseteq cleaned
       /\ \A f \in artifacts : PkgOf(f) \notin precompiled

----------------------------------------------------------------------------
(* Properties of rendering and of the header (SpecFn). *)

\* C11: when rendering the rewritten tree fails, Precompile returns an error
\* to its caller and no translation result, so the partially rendered text
\* does not reach the caller.
C11_RenderFailureReported ==
    (/\ call.fn = "Precompile"
     /\ call.source.parseOK
     /\ PolicyErrs = NilErr
     /\ ~call.source.renderOK)
    => /\ call.out.err # NilErr
       /\ call.out.res = NilRes

\* the text Precompile put before the rendered tree
CallHeader == call.out.res[1].Translated.header

\* C12: the generated text starts with the generated-code marker unless the
\* tag argument is no_header, and then nothing is prepended; the go:build
\* line made from the tag expression follows the marker exactly when the
\* marker is there and the tag expression is not empty.
C12_HeaderFollowsTags ==
    (call.fn = "Precompile" /\ call.out.res # NilRes) =>
        /\ call.tags = "no_header" => CallHeader = <<>>
        /\ call.tags # "no_header"
             => /\ Len(CallHeader) >= 1
                /\ CallHeader[1] = GeneratedMarker
        /\ (call.tags # "no_header" /\ call.tags # "")
             <=> /\ Len(CallHeader) = 2
                 /\ CallHeader[1] = GeneratedMarker
                 /\ CallHeader[2] = "//go:build " \o call.tags \o "\n\n"
        /\ Len(CallHeader) <= 2

\* C12 witness: the sentinel tag gave a text with nothing before the tree.
C12_Witness ==
    /\ call.fn = "Precompile"
    /\ call.out.res # NilRes
    /\ call.tags = "no_header"
    /\ CallHeader = <<>>
    /\ call.out.res[1].Translated.body.complete

----------------------------------------------------------------------------
(* Properties of GetPrecompileFilenameAndTags (SpecFn). *)

\* the kind of a source file, by the suffix of its name
ClaimKind(path) ==
    IF HasSuffix(Base(path), SufFiletestGno) THEN "filetest"
    ELSE IF HasSuffix(Base(path), SufTestGno) THEN "test"
    ELSE "impl"

\* the base name of a .gno file without its extension
ClaimStem(path) == SubSeq(Base(path), 1, Len(Base(path)) - Len(ExtGno))

\* "_test.go"
SufUnderTestGo ==
    <<"_","t","e","s","t",".","g","o">>

\* what the claim says of one call
ClaimNamed(path, out) ==
    /\ ClaimKind(path) = "filetest"
         => /\ out.tags = "gno && filetest"
            /\ Head(out.targetFilename) = "."
            /\ HasPrefix(Tail(out.targetFilename), ClaimStem(path))
    /\ ClaimKind(path) = "test"
         => /\ out.tags = "gno && test"
            /\ Head(out.targetFilename) = "."
            /\ HasPrefix(Tail(out.targetFilename), ClaimStem(path))
            /\ HasSuffix(out.targetFilename, SufUnderTestGo)
    /\ ClaimKind(path) = "impl"
         => /\ out.tags = "gno"
            /\ HasPrefix(out.targetFilename, ClaimStem(path))
    /\ HasSuffix(out.targetFilename, SufGo)

\* C13: GetPrecompileFilenameAndTags depends on the source file name alone:
\* a _filetest.gno name gives the file-test tag and a dot-prefixed name, a
\* _test.gno name the test tag and a dot-prefixed test-suffixed name, any
\* other name the tag gno and an unhidden name; names of different kinds
\* never give the same (filename, tag) pair and different base names never
\* give the same filename.
C13_FilenameAndTagsByKind ==
    call.fn = "GetPrecompileFilenameAndTags" =>
        /\ ClaimNamed(call.a, call.outA)
        /\ ClaimNamed(call.b, call.outB)
        /\ Base(call.a) = Base(call.b) => call.outA = call.outB
        /\ ClaimKind(call.a) # ClaimKind(call.b) => call.outA # call.outB
        /\ Base(call.a) # Base(call.b)
             => call.outA.targetFilename # call.outB.targetFilename

\* C13 witness: a file-test name and a test name of the same stem, in two
\* directories, gave two different hidden file names.
C13_Witness ==
    /\ call.fn = "GetPrecompileFilenameAndTags"
    /\ call.variant = "precompile"
    /\ call.a = NameFiletest
    /\ call.b = <<"d","/">> \o NameTest
    /\ call.outA = [ targetFilename |->
                       <<".">> \o SubSeq(NameFiletest, 1, 10) \o SufGnoGenGo,
                     tags |-> "gno && filetest" ]
    /\ call.outB = [ targetFilename |->
                       <<".">> \o SubSeq(NameTest, 1, 6) \o SufGnoGenTestGo,
                     tags |-> "gno && test" ]

----------------------------------------------------------------------------
(* Properties of diagnostic normalization and of PrecompileRun (SpecFn). *)

\* the text that follows the entry filename in a captured text
ClaimAfter(input, entry) ==
    SubSeq(input, IndexOf(input, entry) + Len(entry), Len(input))

\* C14: for a captured text that contains the entry filename and a logical
\* path P, normalization returns P immediately followed by the text that
\* followed the entry filename in the captured text.
C14_PathThenFollowingText ==
    (call.fn = "parseResult" /\ IndexOf(call.input, call.entry) # 0) =>
        call.out.res = call.path \o ClaimAfter(call.input, call.entry)

\* a text of white space only
ClaimBlank(s) ==
    \A n \in 1..Len(s) : SubSeq(s, n, n) \in {" ", "\n", "\t", "\r"}

C16_SentinelIsError ==
    (/\ call.fn = "PrecompileRun"
     /\ call.run.started
     /\ IndexOf(call.run.stderr, Tag) # 0)
    => /\ call.out.err # NilErr
       /\ call.out.output = ""

\* C17: whenever the error stream of a run does not contain the sentinel and
\* standard output is not empty, PrecompileRun returns exactly the captured
\* standard output as the success result, whatever else the error stream holds.
C17_StdoutReturned ==
    (/\ call.fn = "PrecompileRun"
     /\ call.pkg = "gnolang"
     /\ call.run.started
     /\ IndexOf(call.run.stderr, Tag) = 0
     /\ call.run.stdout # "")
    => /\ call.out.err = NilErr
       /\ call.out.output = call.run.stdout

\* C18: whenever the external run process or the external build process
\* fails, the flow that invoked it returns a non-nil error: PrecompileRun for
\* a run, PrecompileAndCheckPkg for a build.
C18_ProcessFailureSurfaced ==
    /\ (call.fn = "PrecompileRun" /\ ~(call.run.started /\ call.run.exitOK))
         => call.out.err # NilErr
    /\ (status = "returned" /\ pc = "cleanimported" /\ errCount > 0)
         => retErr = "build errors"

----------------------------------------------------------------------------
(* Properties of the errors of the in-memory flows (SpecFn). *)

\* the .gno files of the call's package that failed translation
ClaimFailed ==
    { k \in 1..Len(call.Files) :
        /\ HasSuffix(call.Files[k].Name, ExtGno)
        /\ PrecompileFileErr(call.Files[k]) # NilErr }

\* C19: when PrecompileAndCheckPkg fails because modules failed translation,
\* the error it returns carries the number of failed modules together with
\* every underlying message; for a module importing a path outside the
\* whitelist, the message naming that path as not in the whitelist.
C19_CountAndMessages ==
    (call.fn = "PrecompileAndCheckPkg" /\ ClaimFailed # {}) =>
        /\ Len(call.out) = 1
        /\ call.out[1].args = <<Cardinality(ClaimFailed)>>
        /\ \A k \in ClaimFailed :
               Range(PrecompileFileErr(call.Files[k]))
                 \subseteq Range(call.out[1].wrapped)

\* the failures of one file of a package given to PrecompileAndRunMempkg:
\* of its translation, else of writing its artifact, else of its run
ClaimFailure(pkg, mfile, path) ==
    IF ~HasSuffix(mfile.Name, ExtGno) THEN <<>>
    ELSE IF Precompile(mfile.Body, "", mfile.Name).err # NilErr
    THEN Precompile(mfile.Body, "", mfile.Name).err
    ELSE IF ~mfile.writeOK THEN <<[kind |-> "write"]>>
    ELSE IF pkg = "precompile"
    THEN PrecompileRun(
             GoRun(mfile.run,
                   GetPrecompileFilenameAndTags(mfile.Name).targetFilename),
             path).err
    ELSE gnolangPrecompileRun(
             GoRun(mfile.run,
                   gnolangGetPrecompileFilenameAndTags(
                       mfile.Name, TRUE).targetFilename),
             path).err

RECURSIVE ClaimFailures(_, _, _)
ClaimFailures(pkg, Files, path) ==
    IF Files = <<>> THEN <<>>
    ELSE ClaimFailure(pkg, Head(Files), path)
           \o ClaimFailures(pkg, Tail(Files), path)

----------------------------------------------------------------------------
(* Properties of the recursion and of the error paths (Spec). *)

\* C24: PrecompilePkg puts a package path into PrecompiledSet before it
\* translates any module of that package: whenever a call of PrecompileFile
\* made by PrecompilePkg for package P is in progress, also while the
\* imports of that module are being resolved recursively, P is in the set.
C24_MarkedWhileTranslating ==
    \A k \in 2..Len(stack) :
        (stack[k].fn = "File" /\ stack[k - 1].fn = "Pkg")
        => stack[k - 1].id \in precompiled

\* C24 witness: a module of an imported package has been translated and one
\* of its own imports is being resolved by a nested call of PrecompilePkg.
C24_Witness ==
    /\ Running
    /\ \E k \in 2..Len(stack) :
           /\ stack[k].fn = "File"
           /\ stack[k - 1].fn = "Pkg"
           /\ translated[stack[k].id] = 1
           /\ Len(stack) > k
           /\ stack[k + 1].fn = "Pkg"


\* C25: in a flow that translates the modules of one package, a module whose
\* translation fails does not keep the later modules of that package from
\* being attempted: once the flow has returned without any failure of the
\* environment, every module listed after a failed module of a package the
\* flow went through has been given to Precompile as well.
C25_LaterModulesAttempted ==
    (status = "returned" /\ faults = 0
       /\ retErr \in {"nil", "precompile errors", "build errors"})
    => \A p \in Range(roots) \cup precompiled :
         \A m, n \in 1..Len(FilesOf(p)) :
             (/\ m < n
              /\ translated[FilesOf(p)[m]] > 0
              /\ ~src[FilesOf(p)[m]].ok)
             => translated[FilesOf(p)[n]] > 0


\* C26: a failure met while a module of an imported package is translated,
\* written or format-checked is reported upward: translate-and-check does
\* not return without error after a run in which the translation of some
\* module failed or some step on a module failed in the environment.
C26_ImportFailureReported ==
    (status = "returned" /\ retErr = "nil")
    => /\ faults = 0
       /\ \A f \in AllFiles : translated[f] > 0 => src[f].ok


\* C27: PrecompileFile takes its steps in the order translate, write the
\* artifact, format-check unless SkipFmt, resolve the imports unless
\* SkipImports.  A call of PrecompilePkg made for an import of a module is in
\* progress only when that module was translated without error, its artifact
\* is written and SkipImports is off; and a call of PrecompileFile comes to
\* resolving imports only from a format check that did not fail, or from the
\* write when SkipFmt is set.
C27_ImportsAfterWriteAndCheck ==
    /\ [](\A k \in 1..(Len(stack) - 1) :
            stack[k].fn = "File"
            => /\ stack[k].pc = "imports"
               /\ stack[k + 1].fn = "Pkg"
               /\ src[stack[k].id].ok
               /\ written[stack[k].id] > 0
               /\ stack[k].id \in artifacts
               /\ ~cfg.SkipImports)
    /\ [][(/\ stack # <<>>
           /\ Len(stack') = Len(stack)
           /\ Top.fn = "File"
           /\ Top.pc # "imports"
           /\ stack'[Len(stack')].pc = "imports")
          => /\ Top.pc = "fmt" \/ (Top.pc = "write" /\ cfg.SkipFmt)
             /\ faults' = faults
             /\ Top.id \in artifacts']_vars

\* C27 witness: with the format check on, PrecompilePkg runs for an import
\* of a root module whose artifact is written.
C27_Witness ==
    /\ Running
    /\ ~cfg.SkipFmt
    /\ Len(stack) = 2
    /\ stack[1].fn = "File"
    /\ stack[2].fn = "Pkg"
    /\ stack[1].id \in artifacts


\* C29: a cleanup step of translate-and-check that fails (the removal of the
\* generated artifacts of a root path or of a package in PrecompiledSet, or
\* the removal of the temporary directory) ends the flow in a panic: the
\* flow does not return, with or without an error, after a failed cleanup.
C29_CleanupFailureIsPanic ==
    (status # "running" /\ tmpDir = "remove failed")
    => status = "panicked" /\ retErr = "panic"


\* C30: every invocation of PrecompileAndCheckPkg starts with an empty
\* PrecompiledSet of its own, and the set only grows while the run lasts.  A
\* package translated in one run is not taken as translated in the next:
\* two runs over the same arguments and files that both come to the end of
\* the translation loop perform the same translations.
C30_FreshSetEachRun ==
    /\ [][(pc = "list" /\ pc' = "loop") => precompiled' = {}]_vars
    /\ [][(status = "running" /\ pc \notin {"start", "memwrite", "list"})
          => precompiled \subseteq precompiled']_vars
    /\ []((/\ prevRun # <<>>
           /\ status = "returned"
           /\ retErr \in {"nil", "precompile errors"})
          => /\ translated = prevRun[1].translated
             /\ retErr = prevRun[1].retErr)

\* C30 witness: the second of two runs has returned without error after it
\* translated the modules of an imported package again.
C30_Witness ==
    /\ prevRun # <<>>
    /\ status = "returned"
    /\ retErr = "nil"
    /\ precompiled # {}
    /\ \E f \in AllFiles :
           /\ PkgOf(f) \in precompiled
           /\ translated[f] > 0
           /\ prevRun[1].translated[f] > 0

\* C31: in PrecompileAndCheckPkg the build step is invoked only after every
\* root module has been attempted, and never in a run in which a root module
\* failed translation or the format check.  When a package path has been
\* handed to GoBuildFileOrPkg, every root module has been given to
\* Precompile and none of them failed translation.  A package path is handed
\* over in the build loop alone; the build loop is entered from the listing
\* of the packages alone, and that from the translation loop alone, past its
\* last module and with errCount at zero.  An error that PrecompileFile
\* returns to the translation loop is counted unless the flow returns at
\* once, and the loop is not left for the build while the count is positive.
C31_BuildAfterRootLoop ==
    /\ [](built # {} =>
            \A f \in Range(SrcPaths) :
                translated[f] > 0 /\ src[f].read /\ src[f].ok)
    /\ [][built' \ built # {} => Running /\ pc = "build"]_vars
    /\ [][(pc' = "build" /\ pc # "build") => pc = "listpkgs"]_vars
    /\ [][(pc' = "listpkgs" /\ pc # "listpkgs")
          => /\ pc = "loop"
             /\ loopIdx > Len(SrcPaths)
             /\ errCount = 0]_vars
    /\ [][(InFlow("loop") /\ ret \notin {"none", "nil"})
          => \/ errCount' = errCount + 1 /\ pc' = "loop"
             \/ status' = "returned" /\ built' = {}]_vars
    /\ [][(Running /\ pc = "loop" /\ errCount > 0)
          => /\ pc' = "loop"
             /\ built' = {}
             /\ Running' => errCount' >= errCount]_vars

\* C31 witness: two root packages; every module of both was translated,
\* after that the first package was handed to GoBuildFileOrPkg.
C31_Witness ==
    /\ Running
    /\ pc = "build"
    /\ Len(roots) = 2
    /\ built = {roots[1]}
    /\ \A f \in Range(SrcPaths) : translated[f] > 0 /\ src[f].ok

----------------------------------------------------------------------------
(* Properties of the build and of translate-and-run (SpecFn). *)

\* C21: for every package directory, the file list PrecompileBuildPackage
\* hands to the compiler is in ascending order and holds no artifact that
\* GetPrecompileFilenameAndTags derives from a test-kind or file-test-kind
\* module, nor any file named *_test.go or *_filetest.go.
C21_SortedWithoutTestArtifacts ==
    (call.fn = "PrecompileBuildPackage" /\ call.isDir)
    => LET files == call.out.files
       IN  /\ call.out.compiled
           /\ \A m, n \in 1..Len(files) :
                  m < n => StringsLess(files[m], files[n])
           /\ \A n \in 1..Len(files) :
                  /\ ~HasSuffix(files[n], <<"_","t","e","s","t">> \o SufGo)
                  /\ ~HasSuffix(files[n],
                                <<"_","f","i","l","e","t","e","s","t">> \o SufGo)
                  /\ \A v \in {"precompile", "gnolang", "gnolang pure"},
                        p \in GnoFilePaths :
                         FilenameAndTags(v, p).tags # "gno"
                         => Base(files[n])
                              # FilenameAndTags(v, p).targetFilename

\* C21 witness: a directory given by an absolute path holds the artifact of
\* a test-kind module and one more file; the compiler is handed the other.
C21_Witness ==
    /\ call.fn = "PrecompileBuildPackage"
    /\ call.isDir
    /\ call.fileOrPkg = <<"/", "d">>
    /\ \E x \in call.names :
           x \in { FilenameAndTags(v, NameTest).targetFilename :
                     v \in {"precompile", "gnolang", "gnolang pure"} }
    /\ Cardinality(call.names) = 2
    /\ Len(call.out.files) = 1


\* C22: in translate-and-run every module is translated with the build
\* markers suppressed: no text PrecompileAndRunMempkg writes to the
\* temporary directory holds the generated-code marker or a //go:build line.
C22_WrittenWithoutMarkers ==
    call.fn = "PrecompileAndRunMempkg" =>
        \A k \in 1..Len(call.out.written) :
            \A piece \in Range(call.out.written[k].text.header) :
                /\ piece # GeneratedMarker
                /\ ~HasPrefix(piece, "//go:build")

\* C28: in translate-and-run the artifact of a module is written under the
\* entry filename that the normalization of diagnostics looks for, whatever
\* the module is called; so when the toolchain rejects the written file, the
\* error returned names the logical path of the caller in its place.
C28_WrittenUnderEntryName ==
    (call.fn = "PrecompileAndRunMempkg" /\ call.tmpOK) =>
        /\ \A k \in 1..Len(call.out.written) :
               call.out.written[k].name
                 = <<"m","a","i","n">>
                     \o (IF call.pkg = "precompile" THEN SufGnoGenGo
                         ELSE SufGo)
        /\ \A k \in 1..Len(call.Files) :
               (/\ HasSuffix(call.Files[k].Name, ExtGno)
                /\ Precompile(call.Files[k].Body, "", call.Files[k].Name).err
                     = NilErr
                /\ call.Files[k].writeOK
                /\ call.Files[k].run = "does not compile")
               => \E e \in Range(call.out.err) :
                      e = RunErr(call.path \o ":12: undefined: X")


\* C32: for every package directory path passed to PrecompileBuildPackage
\* (absolute, relative, or starting with a dot component such as ../pkg),
\* every artifact in that directory that was generated from an
\* implementation-kind module is in the file list handed to the compiler.
C32_ImplementationArtifactsCompiled ==
    (call.fn = "PrecompileBuildPackage" /\ call.isDir)
    => \A v \in {"precompile", "gnolang", "gnolang pure"},
          p \in GnoFilePaths :
           (/\ FilenameAndTags(v, p).tags = "gno"
            /\ FilenameAndTags(v, p).targetFilename \in call.names)
           => /\ call.out.compiled
              /\ \E n \in 1..Len(call.out.files) :
                     Base(call.out.files[n])
                       = FilenameAndTags(v, p).targetFilename


----------------------------------------------------------------------------
(* Properties of the transaction-construction command (Spec). *)

\* C23: execMakeRun constructs the transaction, and prints it or has it
\* signed and broadcast, only after translate-and-check of the loaded
\* package has returned without error; when translate-and-check returns an
\* error, no transaction is printed or broadcast and the command panics.
C23_TransactionAfterCheck ==
    call.fn = "execMakeRun" =>
        /\ status = "returned"
        /\ call.out.tx # "none" => retErr = "nil"
        /\ retErr # "nil" => call.out = [tx |-> "none", result |-> "panic"]

\* C23 witness: translate-and-check counted a module that failed translation
\* and returned the count as an error; execMakeRun made no transaction.
C23_Witness ==
    /\ call.fn = "execMakeRun"
    /\ retErr = "precompile errors"
    /\ translated["m1"] > 0
    /\ ~src["m1"].ok
    /\ call.out.tx = "none"
====
